---------------------------- MODULE Spec2Model ----------------------------
(***************************************************************************)
(* The Now monad of hareactive (src/src/Now.ts) as a state machine.       *)
(*                                                                         *)
(* A Now value is an immutable description (OfNow, ChainNow, AsyncNow,     *)
(* SampleNow, PerformStreamNow, PlanNow); run() evaluates it against the   *)
(* world: the promises of started IO actions, the futures, the streams,    *)
(* the behaviors and the promises handed out by runNow.  The environment   *)
(* settles promises, lets the host deliver their then-callbacks, makes     *)
(* sink futures occur and pushes IO actions into the input stream.         *)
(*                                                                         *)
(* Spec explores the programs of the tests; SeqSpec the calls of lift and  *)
(* the chain of two asyncs; StreamSpec one performStream value run several *)
(* times; LoopSpec the recursively planned behavior.                       *)
(***************************************************************************)
EXTENDS Integers, Sequences, FiniteSets, TLC

VARIABLES
    log,        \* effects performed so far, in order
    promises,   \* one promise per runIO call
    futures,    \* every Future created so far
    outs,       \* every PerformIOStream created so far (listeners of its source)
    handles,    \* the promises returned by runNow
    beh,        \* current value of each named behavior
    whens,      \* the futures handed out by sampling when(b), each with its b
    unhandled,  \* rejections that reached no handler
    built,      \* the Now values constructed so far, with the results of their runs
    pushes      \* IO actions pushed into the input stream so far

vars == <<log, promises, futures, outs, handles, beh, whens, unhandled, built, pushes>>

-----------------------------------------------------------------------------
(* Bounds of the explored scenario *)

MaxOps == 3

(* Runs and pushes of the stream scenario *)
MaxStreamOps == 4

(* Runs and arrivals of the recursive scenario *)
MaxLoopOps == 4

(* The numbers getNextNr can be resolved with *)
Arrivals == <<1, 2, 3>>

IOs == <<"a1", "a2">>

(* impure(n) of the performStream test, the action that completes with n + 2 *)
Impure == <<"i1", "i2", "i3", "i4", "i5">>

(* The value each IO action completes with when it does not fail *)
IOResult(io) ==
    CASE io = "a1" -> 11
      [] io = "a2" -> 12
      [] OTHER -> (CHOOSE n \in DOMAIN Impure : Impure[n] = io) + 2

-----------------------------------------------------------------------------
(* Values that flow through computations *)

IntV(n) == [t |-> "int", n |-> n]
FutV(f) == [t |-> "fut", f |-> f]
StreamV(o) == [t |-> "stream", o |-> o]
NowV(m) == [t |-> "now", m |-> m]
NoneV == [t |-> "none"]
BoolV(x) == [t |-> "bool", x |-> x]
BehV(b) == [t |-> "beh", b |-> b]
TupV(xs) == [t |-> "tup", xs |-> xs]

(* Behaviors: a named one, Behavior.of(v), switcher(init, fut),
   b.map(n => n === v) and when(b) *)

VarB(name) == [kind |-> "var", name |-> name]
BehOf(v) == [kind |-> "of", v |-> v]
Switcher(init, fut) == [kind |-> "switcher", init |-> init, fut |-> fut]
EqB(b, v) == [kind |-> "eq", of |-> b, v |-> v]
WhenB(b) == [kind |-> "when", of |-> b]

B1 == VarB("b1")

(* The variants of Now: each constructor only stores its arguments *)

OfNow(value) == [tag |-> "of", value |-> value]
ChainNow(first, f) == [tag |-> "chain", first |-> first, f |-> f]
AsyncNow(comp) == [tag |-> "async", comp |-> comp]
SampleNow(b) == [tag |-> "sample", b |-> b]
PerformStreamNow(s) == [tag |-> "performStream", s |-> s]
PlanNow(future) == [tag |-> "plan", future |-> future]

(* The functions given to chain, as closures *)

KOf == [k |-> "of"]
KMapTo(b) == [k |-> "mapTo", b |-> b]
KMap(fn) == [k |-> "map", fn |-> fn]
KAsync(io) == [k |-> "async", io |-> io]
KOfFutureOf == [k |-> "ofFutureOf"]
KPlanMap(fn) == [k |-> "planMap", fn |-> fn]
KCompose(f, g) == [k |-> "compose", f |-> f, g |-> g]
KSwitcher(n) == [k |-> "switcher", n |-> n]
KSampleWhen(v) == [k |-> "sampleWhen", v |-> v]
KLift(fn, as, ms) == [k |-> "lift", fn |-> fn, as |-> as, ms |-> ms]

map(m, fn) == ChainNow(m, KMap(fn))
mapTo(m, b) == ChainNow(m, KMapTo(b))

(* What a call gives that returns no Now value: undefined, or a thrown
   TypeError *)
Undefined == [tag |-> "undefined"]
TypeError == [tag |-> "TypeError"]

(* A combining function, with its declared parameter count f.length *)
Fn(fn, length) == [fn |-> fn, length |-> length]

(* Mutant: the computations are chained from the last to the first *)
liftReversed(f, ms) ==
    IF ms = <<>> THEN TypeError
    ELSE CASE f.length = 1 -> map(ms[1], f.fn)
           [] f.length = 2 ->
                ChainNow(ms[2], KLift(f.fn, <<>>, <<ms[1]>>))
           [] f.length = 3 ->
                ChainNow(ms[3], KLift(f.fn, <<>>, <<ms[2], ms[1]>>))
           [] OTHER -> Undefined

(* lift(f, ...ms): const {of} = ms[0] throws when no computation is given;
   the switch on f.length has the cases 1, 2 and 3 and no default *)
lift(f, ms) ==
    IF ms = <<>> THEN TypeError
    ELSE CASE f.length = 1 -> map(ms[1], f.fn)
           [] f.length = 2 ->
                ChainNow(ms[1], KLift(f.fn, <<>>, <<ms[2]>>))
           [] f.length = 3 ->
                ChainNow(ms[1], KLift(f.fn, <<>>, <<ms[2], ms[3]>>))
           [] OTHER -> Undefined

-----------------------------------------------------------------------------
(* The world a run acts on *)

World ==
    [log |-> log, promises |-> promises, futures |-> futures, outs |-> outs,
     handles |-> handles, beh |-> beh, whens |-> whens, unhandled |-> unhandled]

Logged(W, ev) == [W EXCEPT !.log = Append(@, ev)]

NewFuture == [occurred |-> FALSE, failed |-> FALSE, value |-> NoneV, listeners |-> <<>>]

(* runIO(io): the action starts and a pending promise stands for its completion *)
runIO(W, io) ==
    LET W1 == Logged(W, [e |-> "start", io |-> io])
    IN  [p |-> Len(W.promises) + 1,
         w |-> [W1 EXCEPT !.promises =
                   Append(@, [io |-> io, st |-> "pending", val |-> NoneV,
                              to |-> [k |-> "none"]])]]

(* loop(n) of the recursive test:
   async(getNextNr()).chain(e => plan(e.map(loop)).chain(e1 =>
     Now.of(switcher(Behavior.of(n), e1)))) *)
Loop(n) ==
    ChainNow(AsyncNow("next"), KCompose(KPlanMap("loop"), KSwitcher(n)))

(* comp(n) of the plan test, and other pure functions mapped over futures
   or over computations *)
PureFn(fn, v) ==
    CASE fn = "comp" -> NowV(OfNow(IntV(v.n * 2)))
      [] fn = "double" -> IntV(v.n * 2)
      [] fn = "square" -> IntV(v.n * v.n)
      [] fn = "loop" -> NowV(Loop(v))
      [] fn = "tuple" -> TupV(<<v>>)
      [] OTHER -> v

RECURSIVE SumV(_)
SumV(as) == IF as = <<>> THEN 0 ELSE Head(as).n + SumV(Tail(as))

(* f(a, b, ...) for the combining functions given to lift *)
Call(fn, as) ==
    IF Len(as) = 1 THEN PureFn(fn, as[1])
    ELSE CASE fn = "sum" -> IntV(SumV(as))
           [] OTHER -> TupV(as)

RECURSIVE Run(_, _), Apply(_, _, _), Resolve(_, _, _), NotifyAll(_, _, _), Fail(_, _), FailAll(_, _)

(* Mutant: the computation is handed on without being run *)
runLazy(now, W) == [res |-> NowV(now), w |-> W]

(* run(now), the function plan maps over its future; the call is logged *)
run(now, W) == Run(now, Logged(W, [e |-> "planRun"]))

(* The function a MapFuture applies: run for plan, a pure function otherwise *)
ApplyFn(fn, v, W) ==
    IF fn = "run" THEN run(v.m, W)
    ELSE [res |-> PureFn(fn, v), w |-> W]

(* resolve(val) of a handle: a settled promise ignores it *)
ResolveHandle(W, h, v) ==
    [W EXCEPT !.handles[h] =
        IF @.st = "pending"
        THEN [st |-> "resolved", val |-> v, calls |-> @.calls + 1]
        ELSE [@ EXCEPT !.calls = @ + 1]]

Notify(W, l, v) ==
    IF l.k = "map"
    THEN LET r == ApplyFn(l.fn, v, W) IN Resolve(r.w, l.to, r.res)
    ELSE ResolveHandle(W, l.h, v)

NotifyAll(W, ls, v) ==
    IF ls = <<>> THEN W
    ELSE NotifyAll(Notify(W, Head(ls), v), Tail(ls), v)

(* A future occurs at most once and notifies its listeners synchronously *)
Resolve(W, f, v) ==
    IF W.futures[f].occurred \/ W.futures[f].failed THEN W
    ELSE NotifyAll([W EXCEPT !.futures[f].occurred = TRUE, !.futures[f].value = v],
                   W.futures[f].listeners, v)

FailAll(W, ls) ==
    IF ls = <<>> THEN W
    ELSE FailAll(IF Head(ls).k = "map" THEN Fail(W, Head(ls).to) ELSE W, Tail(ls))

(* A failed future never occurs; the futures mapped from it fail with it *)
Fail(W, f) ==
    IF W.futures[f].occurred \/ W.futures[f].failed THEN W
    ELSE FailAll([W EXCEPT !.futures[f].failed = TRUE], W.futures[f].listeners)

(* listen: an occurred future pushes at once, a pending one keeps the listener *)
Listen(W, f, l) ==
    LET W1 == Logged(W, [e |-> "listen", f |-> f])
    IN  IF W1.futures[f].occurred THEN Notify(W1, l, W1.futures[f].value)
        ELSE IF W1.futures[f].failed
             THEN (IF l.k = "map" THEN Fail(W1, l.to) ELSE W1)
             ELSE [W1 EXCEPT !.futures[f].listeners = Append(@, l)]

(* future.map(fn): a new future fed by f through fn *)
FutureMap(W, f, fn) ==
    LET n == Len(W.futures) + 1
        W1 == [W EXCEPT !.futures = Append(@, NewFuture)]
    IN  [res |-> FutV(n), w |-> Listen(W1, f, [k |-> "map", fn |-> fn, to |-> n])]

(* Future.of(v): a future that has occurred *)
FutureOf(W, v) ==
    [res |-> FutV(Len(W.futures) + 1),
     w |-> [W EXCEPT !.futures =
               Append(@, [occurred |-> TRUE, failed |-> FALSE, value |-> v, listeners |-> <<>>])]]

(* fromPromise(p): a sink future resolved by p's then-callback *)
fromPromise(W, p) ==
    LET n == Len(W.futures) + 1
    IN  [res |-> FutV(n),
         w |-> [W EXCEPT !.futures = Append(@, NewFuture),
                         !.promises[p].to = [k |-> "future", id |-> n]]]

RECURSIVE Val(_, _)
(* The current value of a behavior *)
Val(W, b) ==
    CASE b.kind = "var" -> IntV(W.beh[b.name])
      [] b.kind = "of" -> b.v
      [] b.kind = "switcher" ->
            IF W.futures[b.fut].occurred /\ W.futures[b.fut].value.t = "beh"
            THEN Val(W, W.futures[b.fut].value.b)
            ELSE Val(W, b.init)
      [] b.kind = "eq" -> BoolV(Val(W, b.of) = b.v)

(* at(b): when(b) gives an occurred future if b holds now and otherwise a
   future that occurs once b holds *)
at(W, b) ==
    IF b.kind = "when"
    THEN IF Val(W, b.of) = BoolV(TRUE) THEN FutureOf(W, BoolV(TRUE))
         ELSE [res |-> FutV(Len(W.futures) + 1),
               w |-> [W EXCEPT !.futures = Append(@, NewFuture),
                               !.whens = Append(@, [b |-> b.of, f |-> Len(W.futures) + 1])]]
    ELSE [res |-> Val(W, b), w |-> W]

RECURSIVE PropagateFrom(_, _)
(* A change of the behaviors reaches the futures of when: those whose
   behavior holds now occur *)
PropagateFrom(W, k) ==
    IF k > Len(W.whens) THEN W
    ELSE PropagateFrom(
            IF Val(W, W.whens[k].b) = BoolV(TRUE)
            THEN Resolve(W, W.whens[k].f, BoolV(TRUE)) ELSE W,
            k + 1)

Propagate(W) == PropagateFrom(W, 1)

(* f(a) for a closure f given to chain *)
Apply(f, a, W) ==
    CASE f.k = "of" -> [m |-> OfNow(a), w |-> W]
      [] f.k = "mapTo" -> [m |-> OfNow(f.b), w |-> W]
      [] f.k = "map" -> [m |-> OfNow(PureFn(f.fn, a)), w |-> W]
      [] f.k = "async" -> [m |-> AsyncNow(f.io), w |-> W]
      [] f.k = "ofFutureOf" ->
            LET r == FutureOf(W, a) IN [m |-> OfNow(r.res), w |-> r.w]
      [] f.k = "planMap" ->
            LET r == FutureMap(W, a.f, f.fn) IN [m |-> PlanNow(r.res.f), w |-> r.w]
      [] f.k = "compose" ->
            LET r == Apply(f.f, a, W) IN [m |-> ChainNow(r.m, f.g), w |-> r.w]
      [] f.k = "switcher" ->
            [m |-> OfNow(BehV(Switcher(BehOf(f.n), a.f))), w |-> W]
      [] f.k = "sampleWhen" ->
            [m |-> SampleNow(WhenB(EqB(a.b, f.v))), w |-> W]
      [] f.k = "lift" ->
            [m |-> IF f.ms = <<>> THEN OfNow(Call(f.fn, Append(f.as, a)))
                   ELSE ChainNow(Head(f.ms), KLift(f.fn, Append(f.as, a), Tail(f.ms))),
             w |-> W]

OfNowRun(m, W) == [res |-> m.value, w |-> W]

(* Mutant: the first computation is run a second time to obtain its value *)
ChainNowRunTwice(m, W) ==
    LET r0 == Run(m.first, W)
        r == Run(m.first, r0.w)
        c == Apply(m.f, r.res, r.w)
    IN  Run(c.m, c.w)

(* Mutant: the computation the continuation returns is returned, not run *)
ChainNowRunNested(m, W) ==
    LET r == Run(m.first, W)
        c == Apply(m.f, r.res, r.w)
    IN  [res |-> NowV(c.m), w |-> c.w]

ChainNowRun(m, W) ==
    LET r == Run(m.first, W)
        c == Apply(m.f, r.res, r.w)
    IN  Run(c.m, c.w)

(* Mutant: the action is started but its promise is not turned into the
   returned future *)
AsyncNowRunDetached(m, W) ==
    LET io == runIO(W, m.comp)
    IN  [res |-> FutV(Len(io.w.futures) + 1),
         w |-> [io.w EXCEPT !.futures = Append(@, NewFuture)]]

(* Mutant: the future of an action already started for this comp is reused *)
AsyncNowRunMemo(m, W) ==
    LET old == {p \in DOMAIN W.promises :
                   W.promises[p].io = m.comp /\ W.promises[p].to.k = "future"}
        io == runIO(W, m.comp)
    IN  IF old # {}
        THEN [res |-> FutV(W.promises[CHOOSE p \in old : TRUE].to.id), w |-> W]
        ELSE fromPromise(io.w, io.p)

(* Mutant: the action is started once for its effect and once more for the
   promise that feeds the future *)
AsyncNowRunAgain(m, W) ==
    LET io == runIO(runIO(W, m.comp).w, m.comp) IN fromPromise(io.w, io.p)

(* Mutant: the action is not started by the run; the future waits for a
   start that comes later *)
AsyncNowRunLate(m, W) ==
    [res |-> FutV(Len(W.futures) + 1),
     w |-> [W EXCEPT !.futures = Append(@, NewFuture)]]

AsyncNowRun(m, W) ==
    LET io == runIO(W, m.comp) IN fromPromise(io.w, io.p)

SampleNowRun(m, W) == at(Logged(W, [e |-> "read", b |-> m.b]), m.b)

(* Mutant: the stream of an earlier run is handed out again *)
PerformStreamNowRunShared(m, W) ==
    IF W.outs = <<>>
    THEN [res |-> StreamV(1),
          w |-> [Logged(W, [e |-> "addListener", s |-> m.s])
                    EXCEPT !.outs = Append(@, [src |-> m.s, got |-> <<>>])]]
    ELSE [res |-> StreamV(1), w |-> W]

(* new PerformIOStream(s): a new stream that listens to s *)
PerformStreamNowRun(m, W) ==
    LET W1 == Logged(W, [e |-> "addListener", s |-> m.s])
    IN  [res |-> StreamV(Len(W.outs) + 1),
         w |-> [W1 EXCEPT !.outs = Append(@, [src |-> m.s, got |-> <<>>])]]

(* Mutant: the carried computation is handed on when the future occurs,
   to be run at some later time *)
PlanNowRunLater(m, W) == FutureMap(W, m.future, "later")

(* Mutant: the given future is returned as it is *)
PlanNowRunSame(m, W) == [res |-> FutV(m.future), w |-> W]

PlanNowRun(m, W) == FutureMap(W, m.future, "run")

(* now.run() *)
Run(m, W) ==
    CASE m.tag = "of" -> OfNowRun(m, W)
      [] m.tag = "chain" -> ChainNowRun(m, W)
      [] m.tag = "async" -> AsyncNowRun(m, W)
      [] m.tag = "sample" -> SampleNowRun(m, W)
      [] m.tag = "performStream" -> PerformStreamNowRun(m, W)
      [] m.tag = "plan" -> PlanNowRun(m, W)

-----------------------------------------------------------------------------
(* Construction: every constructor calls super() and stores its arguments *)

OfNowCtor(W, value) == W
ChainNowCtor(W, first, f) == W
(* Mutant: the constructor already starts the action *)
AsyncNowCtorEager(W, comp) == runIO(W, comp).w

AsyncNowCtor(W, comp) == W
SampleNowCtor(W, b) == W
PerformStreamNowCtor(W, s) == W
PlanNowCtor(W, future) == W

RECURSIVE Constructed(_, _)
(* The world after the expression that builds m has been evaluated *)
Constructed(W, m) ==
    CASE m.tag = "of" -> OfNowCtor(W, m.value)
      [] m.tag = "chain" -> ChainNowCtor(Constructed(W, m.first), m.first, m.f)
      [] m.tag = "async" -> AsyncNowCtor(W, m.comp)
      [] m.tag = "sample" -> SampleNowCtor(W, m.b)
      [] m.tag = "performStream" -> PerformStreamNowCtor(W, m.s)
      [] m.tag = "plan" -> PlanNowCtor(W, m.future)

(* Mutant: resolve is called with the future itself, as soon as now has
   been run *)
runNowAtOnce(W, now) ==
    LET h == Len(W.handles) + 1
        W1 == [W EXCEPT !.handles = Append(@, [st |-> "pending", val |-> NoneV, calls |-> 0])]
        r == Run(now, W1)
    IN  [res |-> r.res, h |-> h, w |-> ResolveHandle(r.w, h, r.res)]

(* Mutant: now is run once more before the run whose future is subscribed *)
runNowTwice(W, now) ==
    LET h == Len(W.handles) + 1
        W1 == [W EXCEPT !.handles = Append(@, [st |-> "pending", val |-> NoneV, calls |-> 0])]
        r0 == Run(now, W1)
        r == Run(now, r0.w)
    IN  [res |-> r.res, h |-> h, w |-> Listen(r.w, r.res.f, [k |-> "sub", h |-> h])]

(* runNow(now): the executor runs now and subscribes resolve to its future *)
runNow(W, now) ==
    LET h == Len(W.handles) + 1
        W1 == [W EXCEPT !.handles = Append(@, [st |-> "pending", val |-> NoneV, calls |-> 0])]
        r == Run(now, W1)
    IN  [res |-> r.res, h |-> h, w |-> Listen(r.w, r.res.f, [k |-> "sub", h |-> h])]

RECURSIVE PushAll(_, _, _)
(* Mutant: the pushed action is run a second time for its result *)
PerformIOStreamPushTwice(W, o, io) ==
    LET r0 == runIO(W, io)
        r == runIO([r0.w EXCEPT !.promises[r0.p].to = [k |-> "out", id |-> o]], io)
    IN  [r.w EXCEPT !.promises[r.p].to = [k |-> "out", id |-> o]]

(* PerformIOStream.push(io), for each listener of the pushed stream from o on *)
PerformIOStreamPush(W, o, io) ==
    LET r == runIO(W, io)
    IN  [r.w EXCEPT !.promises[r.p].to = [k |-> "out", id |-> o]]

PushAll(W, o, io) ==
    IF o > Len(W.outs) THEN W
    ELSE PushAll(PerformIOStreamPush(W, o, io), o + 1, io)

RECURSIVE ResultsTo(_, _, _)
(* The results of the fulfilled promises p.. that feed stream o, in the
   order their actions were started *)
ResultsTo(W, o, p) ==
    IF p > Len(W.promises) THEN <<>>
    ELSE (IF /\ W.promises[p].to = [k |-> "out", id |-> o]
             /\ W.promises[p].st = "resolved"
          THEN << W.promises[p].val >> ELSE <<>>) \o ResultsTo(W, o, p + 1)

(* Mutant: the stream holds a result back until it is in the order of the
   pushes *)
FulfilledInOrder(W, p, v) ==
    LET pr == W.promises[p]
        W1 == [W EXCEPT !.promises[p].st = "resolved", !.promises[p].val = v]
    IN  CASE pr.to.k = "future" -> Resolve(W1, pr.to.id, v)
          [] pr.to.k = "out" -> [W1 EXCEPT !.outs[pr.to.id].got = ResultsTo(W1, pr.to.id, 1)]
          [] OTHER -> W1

(* The promise of a started action is fulfilled with v: the host runs its
   then-callback, future.resolve for async and child.push for a stream *)
Fulfilled(W, p, v) ==
    LET pr == W.promises[p]
        W1 == [W EXCEPT !.promises[p].st = "resolved", !.promises[p].val = v]
    IN  CASE pr.to.k = "future" -> Resolve(W1, pr.to.id, v)
          [] pr.to.k = "out" -> [W1 EXCEPT !.outs[pr.to.id].got = Append(@, v)]
          [] OTHER -> W1

(* The promise of a started action is rejected: then() was given no
   rejection callback *)
Rejected(W, p) ==
    LET pr == W.promises[p]
        W1 == [W EXCEPT !.promises[p].st = "rejected"]
    IN  CASE pr.to.k = "future" -> Fail(W1, pr.to.id)
          [] pr.to.k = "out" -> [W1 EXCEPT !.unhandled = @ + 1]
          [] OTHER -> W1

-----------------------------------------------------------------------------
(* The programs the application builds *)

Prog ==
    ChainNow(AsyncNow("a1"), KCompose(KPlanMap("comp"), KOf))

Programs ==
    << AsyncNow("a1"),
       ChainNow(SampleNow(B1), KOfFutureOf),
       PlanNow(1),
       PerformStreamNow("s1"),
       Prog,
       ChainNow(OfNow(IntV(11)), KAsync("a2")),
       ChainNow(ChainNow(AsyncNow("a1"), KAsync("a2")), KOfFutureOf) >>

(* Programs of type Now<Future<A>>, which runNow accepts *)
FutPrograms == {1, 2, 3, 5, 6, 7}

Payloads == << OfNow(IntV(22)), AsyncNow("a2") >>

RECURSIVE SumRuns(_)
SumRuns(bs) == IF bs = <<>> THEN 0 ELSE Len(Head(bs).res) + SumRuns(Tail(bs))

(* Operations the application has performed: constructions, runs, pushes *)
Ops == Len(built) + SumRuns(built) + Len(pushes)

Commit(W) ==
    /\ log' = W.log
    /\ promises' = W.promises
    /\ futures' = W.futures
    /\ outs' = W.outs
    /\ handles' = W.handles
    /\ beh' = W.beh
    /\ whens' = W.whens
    /\ unhandled' = W.unhandled

Init ==
    /\ log = <<>>
    /\ promises = <<>>
    /\ futures = << NewFuture >>
    /\ outs = <<>>
    /\ handles = <<>>
    /\ beh = [b \in {"b1"} |-> 6]
    /\ whens = <<>>
    /\ unhandled = 0
    /\ built = <<>>
    /\ pushes = <<>>

(* The application evaluates an expression that builds a Now value *)
Construct ==
    \E i \in DOMAIN Programs :
        /\ Ops < MaxOps
        /\ built' = Append(built, [p |-> i, m |-> Programs[i], res |-> <<>>])
        /\ Commit(Constructed(World, Programs[i]))
        /\ UNCHANGED pushes

(* now.run() on a constructed value *)
RunBuilt ==
    \E i \in DOMAIN built :
        /\ Ops < MaxOps
        /\ built[i].m.tag \notin {"undefined", "TypeError"}
        /\ LET r == Run(built[i].m, World)
           IN  /\ built' = [built EXCEPT ![i].res = Append(@, [v |-> r.res, h |-> 0])]
               /\ Commit(r.w)
        /\ UNCHANGED pushes

(* runNow(now) on a constructed value *)
RunNowBuilt ==
    \E i \in DOMAIN built :
        /\ Ops < MaxOps
        /\ built[i].p \in FutPrograms
        /\ LET r == runNow(World, built[i].m)
           IN  /\ built' = [built EXCEPT ![i].res = Append(@, [v |-> r.res, h |-> r.h])]
               /\ Commit(r.w)
        /\ UNCHANGED pushes

(* A started action completes and its completion is delivered *)
Complete ==
    \E p \in DOMAIN promises :
        /\ promises[p].st = "pending"
        /\ Commit(Fulfilled(World, p, IntV(IOResult(promises[p].io))))
        /\ UNCHANGED <<built, pushes>>

(* A started action fails and its failure is delivered *)
Reject ==
    \E p \in DOMAIN promises :
        /\ promises[p].st = "pending"
        /\ Commit(Rejected(World, p))
        /\ UNCHANGED <<built, pushes>>

(* The sink future occurs, carrying a Now computation *)
OccurSink ==
    \E i \in DOMAIN Payloads :
        /\ ~futures[1].occurred
        /\ Commit(Resolve(World, 1, NowV(Payloads[i])))
        /\ UNCHANGED <<built, pushes>>

(* An IO action is pushed into the input stream once it has a listener
   (a push into a stream without listeners reaches nothing) *)
Push ==
    \E i \in DOMAIN IOs :
        /\ Ops < MaxOps
        /\ outs # <<>>
        /\ pushes' = Append(pushes, IOs[i])
        /\ Commit(PushAll(World, 1, IOs[i]))
        /\ UNCHANGED built

Next ==
    \/ Construct
    \/ RunBuilt
    \/ RunNowBuilt
    \/ Complete
    \/ Reject
    \/ OccurSink
    \/ Push

Spec == Init /\ [][Next]_vars

-----------------------------------------------------------------------------
(* Sequencing: the calls of lift and the chain of two asyncs of the tests *)

LiftCalls ==
    << [f |-> Fn("square", 1), ms |-> << OfNow(IntV(3)) >>],
       [f |-> Fn("sum", 2), ms |-> << OfNow(IntV(1)), OfNow(IntV(3)) >>],
       [f |-> Fn("sum", 3), ms |-> << OfNow(IntV(1)), OfNow(IntV(3)), OfNow(IntV(5)) >>],
       [f |-> Fn("tuple", 1), ms |-> << AsyncNow("a1") >>],
       [f |-> Fn("tuple", 2), ms |-> << AsyncNow("a1"), AsyncNow("a2") >>],
       [f |-> Fn("tuple", 3), ms |-> << AsyncNow("a1"), SampleNow(B1), AsyncNow("a2") >>],
       [f |-> Fn("tuple", 0), ms |-> << OfNow(IntV(1)) >>],
       [f |-> Fn("sum", 4),
        ms |-> << OfNow(IntV(1)), OfNow(IntV(3)), OfNow(IntV(5)), OfNow(IntV(7)) >>],
       [f |-> Fn("tuple", 0), ms |-> <<>>] >>

(* async(a1).chain(_ => async(a2).chain(__ => Now.of(r))) *)
Chained ==
    ChainNow(AsyncNow("a1"), KCompose(KAsync("a2"), KMapTo(BoolV(TRUE))))

(* The application calls lift; the computations given to it are built
   first, and what lift returns is kept *)
CallLift ==
    \E c \in DOMAIN LiftCalls :
        /\ Ops < MaxOps
        /\ built' = Append(built, [p |-> c,
                                   m |-> lift(LiftCalls[c].f, LiftCalls[c].ms),
                                   res |-> <<>>])
        /\ Commit(World)
        /\ UNCHANGED pushes

(* The application builds the chain of two asyncs *)
ConstructChained ==
    /\ Ops < MaxOps
    /\ built' = Append(built, [p |-> 0, m |-> Chained, res |-> <<>>])
    /\ Commit(Constructed(World, Chained))
    /\ UNCHANGED pushes

SeqNext ==
    \/ CallLift
    \/ ConstructChained
    \/ RunBuilt
    \/ Complete
    \/ Reject

SeqSpec == Init /\ [][SeqNext]_vars

-----------------------------------------------------------------------------
(* The stream scenario: one performStream(s) value, run any number of
   times, and the actions impure(1), impure(2), ... pushed into s *)

StreamOps == SumRuns(built) + Len(pushes)

(* performStream(s) is built, once *)
ConstructPerform ==
    /\ built = <<>>
    /\ built' = << [p |-> 4, m |-> PerformStreamNow("s1"), res |-> <<>>] >>
    /\ Commit(Constructed(World, PerformStreamNow("s1")))
    /\ UNCHANGED pushes

(* performStream(s).run() *)
RunPerform ==
    \E i \in DOMAIN built :
        /\ StreamOps < MaxStreamOps
        /\ LET r == Run(built[i].m, World)
           IN  /\ built' = [built EXCEPT ![i].res = Append(@, [v |-> r.res, h |-> 0])]
               /\ Commit(r.w)
        /\ UNCHANGED pushes

(* s.push(n) through s.map(impure): the next impure(n) reaches every
   listener of the mapped stream *)
PushImpure ==
    /\ StreamOps < MaxStreamOps
    /\ Len(pushes) < Len(Impure)
    /\ pushes' = Append(pushes, Impure[Len(pushes) + 1])
    /\ Commit(PushAll(World, 1, Impure[Len(pushes) + 1]))
    /\ UNCHANGED built

StreamNext ==
    \/ ConstructPerform
    \/ RunPerform
    \/ PushImpure
    \/ Complete
    \/ Reject

StreamSpec == Init /\ [][StreamNext]_vars

-----------------------------------------------------------------------------
(* The recursive scenario: main() is built, run by runNow, and the numbers
   arrive one after the other *)

(* main(): loop(0).chain(b => sample(when(b.map(n => n === 3))).chain(e =>
     Now.of(e))) *)
Main ==
    ChainNow(Loop(IntV(0)), KCompose(KSampleWhen(IntV(3)), KOf))

(* The numbers that have arrived *)
Arrived == {p \in DOMAIN promises : promises[p].st = "resolved"}

LoopOps == SumRuns(built) + Cardinality(Arrived)

(* main() is built, once *)
ConstructMain ==
    /\ built = <<>>
    /\ built' = << [p |-> 0, m |-> Main, res |-> <<>>] >>
    /\ Commit(Constructed(World, Main))
    /\ UNCHANGED pushes

(* runNow(main()) *)
RunNowMain ==
    \E i \in DOMAIN built :
        /\ LoopOps < MaxLoopOps
        /\ LET r == runNow(World, built[i].m)
           IN  /\ built' = [built EXCEPT ![i].res = Append(@, [v |-> r.res, h |-> r.h])]
               /\ Commit(r.w)
        /\ UNCHANGED pushes

(* resolve(n): the promise of a pending getNextNr is fulfilled with n and
   the behaviors that depend on it change *)
Arrive ==
    \E p \in DOMAIN promises : \E n \in DOMAIN Arrivals :
        /\ LoopOps < MaxLoopOps
        /\ promises[p].st = "pending"
        /\ Commit(Propagate(Fulfilled(World, p, IntV(Arrivals[n]))))
        /\ UNCHANGED <<built, pushes>>

LoopNext ==
    \/ ConstructMain
    \/ RunNowMain
    \/ Arrive
    \/ Reject

LoopSpec == Init /\ [][LoopNext]_vars

-----------------------------------------------------------------------------
(* Inputs of the algebraic laws: the continuations are total, the
   computations are the constructed values, the values are the results of
   the runs so far *)

LawKs == << KAsync("a2"), KOfFutureOf >>

IdKs == << KOf >> \o LawKs

(* f(a).run() *)
RunApplied(f, a, W) == LET c == Apply(f, a, W) IN Run(c.m, c.w)

-----------------------------------------------------------------------------
(* C1: constructing a Now value causes no effect: a step that adds a
   constructed value starts no action, reads no behavior, registers no
   callback on a future and adds no listener to a stream; the world is
   left exactly as it was. *)
C1_ConstructionIsPure ==
    [][Len(built') > Len(built) => World' = World]_vars

(* A value of an effectful variant has been constructed and not yet run,
   and nothing has happened in the world *)
C1_Witness ==
    /\ \E i \in DOMAIN built :
          /\ built[i].m.tag \in {"async", "plan", "performStream"}
          /\ built[i].res = <<>>
    /\ log = <<>>
    /\ promises = <<>>

(* C2: monad identity laws: in every reachable world, for 11 and every
   result a of a run so far, of(a).chain(f).run() gives the same result and
   the same world (hence the same effects in the same order) as f(a).run(),
   and for every constructed m, m.chain(of).run() the same as m.run(). *)
C2_IdentityLaws ==
    /\ \A f \in DOMAIN IdKs :
          /\ Run(ChainNow(OfNow(IntV(11)), IdKs[f]), World)
                = RunApplied(IdKs[f], IntV(11), World)
          /\ \A i \in DOMAIN built : \A j \in DOMAIN built[i].res :
                Run(ChainNow(OfNow(built[i].res[j].v), IdKs[f]), World)
                  = RunApplied(IdKs[f], built[i].res[j].v, World)
    /\ \A i \in DOMAIN built :
          Run(ChainNow(built[i].m, KOf), World) = Run(built[i].m, World)

(* of(11).chain(_ => async(a2)) has been run and did what async(a2) does:
   it started a2 and nothing else *)
C2_Witness ==
    \E i \in DOMAIN built :
        /\ built[i].m = ChainNow(OfNow(IntV(11)), KAsync("a2"))
        /\ built[i].res # <<>>
        /\ log = << [e |-> "start", io |-> "a2"] >>

(* C3: monad associativity: in every reachable world and for every
   constructed m, m.chain(f).chain(g).run() gives the same result and the same world
   (the same effects in the same order) as m.chain(a => f(a).chain(g)).run(). *)
C3_Associativity ==
    \A i \in DOMAIN built, f \in DOMAIN LawKs, g \in DOMAIN LawKs :
        Run(ChainNow(ChainNow(built[i].m, LawKs[f]), LawKs[g]), World)
          = Run(ChainNow(built[i].m, KCompose(LawKs[f], LawKs[g])), World)

(* async(a1).chain(_ => async(a2)).chain(n => of(Future.of(n))) has been run:
   a1 was started, then a2 *)
C3_Witness ==
    \E i \in DOMAIN built :
        /\ built[i].m = ChainNow(ChainNow(AsyncNow("a1"), KAsync("a2")), KOfFutureOf)
        /\ built[i].res # <<>>
        /\ log = << [e |-> "start", io |-> "a1"], [e |-> "start", io |-> "a2"] >>

-----------------------------------------------------------------------------
(* The promises whose then-callback resolves future f *)
Feeding(f) == {p \in DOMAIN promises : promises[p].to = [k |-> "future", id |-> f]}

(* The runs of constructed value i, as indices into its results *)
RunsOf(i) == DOMAIN built[i].res

(* C4: running async(action) returns a future at once; in every state that
   future has occurred exactly when the completion of the action has been
   delivered, and then with the action's result; the promise runNow returned
   for it is resolved exactly then, with that result. *)
C4_AsyncFuture ==
    \A i \in DOMAIN built : built[i].m.tag = "async" =>
        \A j \in RunsOf(i) :
            LET r == built[i].res[j]
                res == IntV(IOResult(built[i].m.comp))
            IN  /\ r.v.t = "fut"
                /\ r.v.f \in DOMAIN futures
                /\ \E p \in Feeding(r.v.f) :
                      /\ promises[p].io = built[i].m.comp
                      /\ futures[r.v.f].occurred <=> promises[p].st = "resolved"
                      /\ futures[r.v.f].occurred => futures[r.v.f].value = res
                      /\ r.h # 0 =>
                            /\ handles[r.h].st = "resolved" <=> promises[p].st = "resolved"
                            /\ handles[r.h].st = "resolved" => handles[r.h].val = res

(* runNow(async(a1)) has resolved to 11, the result of a1 *)
C4_Witness ==
    \E i \in DOMAIN built : \E j \in RunsOf(i) :
        /\ built[i].m = AsyncNow("a1")
        /\ built[i].res[j].h # 0
        /\ handles[built[i].res[j].h] = [st |-> "resolved", val |-> IntV(11), calls |-> 1]

(* C5: running plan(F) returns a new future at once; a computation carried
   by a future is evaluated only once that future has occurred; the returned
   future has occurred exactly when F has, with the value the carried
   computation evaluates to (22 for Now.of(22)); runNow of the test program
   async(a1) then plan(e.map(comp)) resolves to 22 = 11 * 2 and to nothing else. *)
C5_PlanFuture ==
    /\ (\A f \in DOMAIN futures : futures[f].occurred => futures[f].value.t # "now")
          => \A k \in DOMAIN log : log[k].e # "planRun"
    /\ \A f \in DOMAIN futures : \A k \in DOMAIN futures[f].listeners :
          LET l == futures[f].listeners[k]
          IN  (l.k = "map" /\ l.fn = "run") =>
                 (futures[l.to].occurred <=> futures[f].occurred)
    /\ \A i \in DOMAIN built : \A j \in RunsOf(i) :
          LET r == built[i].res[j]
              F == built[i].m.future
          IN  /\ built[i].m.tag = "plan" =>
                    /\ r.v.t = "fut"
                    /\ r.v.f \in DOMAIN futures
                    /\ r.v.f # F
                    /\ futures[r.v.f].occurred <=> futures[F].occurred
                    /\ futures[F].value = NowV(OfNow(IntV(22)))
                          => futures[r.v.f].value = IntV(22)
              /\ (built[i].m = Prog /\ r.h # 0 /\ handles[r.h].st = "resolved") =>
                    handles[r.h].val = IntV(22)

(* plan(F) was run while F was pending (its listener is kept by F); F has
   since occurred with Now.of(22) and the returned future with 22 *)
C5_Witness ==
    \E i \in DOMAIN built : \E j \in RunsOf(i) :
        /\ built[i].m = PlanNow(1)
        /\ futures[1].listeners # <<>>
        /\ futures[1].occurred
        /\ futures[built[i].res[j].v.f].occurred
        /\ futures[built[i].res[j].v.f].value = IntV(22)

Reads == Cardinality({k \in DOMAIN log : log[k].e = "read"})

(* C7: runNow(m) evaluates m once and subscribes to the resulting future:
   its promise is resolved exactly when that future has occurred, by a single
   call of resolve and with the occurrence value; while the future has not
   occurred the promise is pending, and it is never rejected. *)
C7_RunNowHandle ==
    /\ \A i \in DOMAIN built : \A j \in RunsOf(i) :
          LET r == built[i].res[j]
          IN  r.h # 0 =>
                 /\ r.h \in DOMAIN handles
                 /\ handles[r.h].st # "rejected"
                 /\ handles[r.h].st = "resolved" <=> futures[r.v.f].occurred
                 /\ handles[r.h].st = "resolved" =>
                       handles[r.h].val = futures[r.v.f].value /\ handles[r.h].calls = 1
                 /\ handles[r.h].st = "pending" => handles[r.h].calls = 0
    /\ Reads = SumRuns(SelectSeq(built, LAMBDA b : b.m = ChainNow(SampleNow(B1), KOfFutureOf)))

(* runNow(sample(b).chain(n => Now.of(Future.of(n)))) has resolved to 6 by one
   call of resolve, after one read of the behavior *)
C7_Witness ==
    \E i \in DOMAIN built : \E j \in RunsOf(i) :
        /\ built[i].m = ChainNow(SampleNow(B1), KOfFutureOf)
        /\ built[i].res[j].h # 0
        /\ handles[built[i].res[j].h] = [st |-> "resolved", val |-> IntV(6), calls |-> 1]
        /\ Reads = 1

(* The promises of the actions started by the runs of constructed value i *)
StartedBy(i) == UNION {Feeding(built[i].res[j].v.f) : j \in RunsOf(i)}

(* C8, as claimed: after any number of runs of one constructed async(action)
   value, its action has been started at most once. *)
C8_StartedOncePerConstruction ==
    \A i \in DOMAIN built : built[i].m.tag = "async" => Cardinality(StartedBy(i)) <= 1

(* C8, amended: the action wrapped by async is started once per evaluation:
   after k runs of one constructed async(action) value the action has been
   started exactly k times, and each run returned a future of its own. *)
C8_StartedOncePerRun ==
    \A i \in DOMAIN built : built[i].m.tag = "async" =>
        /\ Cardinality(StartedBy(i)) = Len(built[i].res)
        /\ \A p \in StartedBy(i) : promises[p].io = built[i].m.comp
        /\ \A j, k \in RunsOf(i) : j # k => built[i].res[j].v # built[i].res[k].v

(* One constructed async value has been run twice and its action started twice *)
C8_Witness ==
    \E i \in DOMAIN built :
        /\ built[i].m.tag = "async"
        /\ Len(built[i].res) = 2
        /\ Cardinality(StartedBy(i)) = 2

(* C9, as claimed: when the action run through async fails, the promise
   runNow returned ends rejected. *)
C9_FailureRejectsHandle ==
    \A i \in DOMAIN built : built[i].m.tag = "async" =>
        \A j \in RunsOf(i) :
            LET r == built[i].res[j]
            IN  (r.h # 0 /\ \E p \in Feeding(r.v.f) : promises[p].st = "rejected")
                    => handles[r.h].st = "rejected"

(* C10, as claimed: when an action pushed through performStream fails, the
   output stream receives a failed occurrence and no rejection is left
   unhandled. *)
C10_FailureReachesOutput ==
    \A p \in DOMAIN promises :
        (promises[p].to.k = "out" /\ promises[p].st = "rejected") =>
            /\ \E k \in DOMAIN outs[promises[p].to.id].got :
                  outs[promises[p].to.id].got[k].t = "failed"
            /\ unhandled = 0

-----------------------------------------------------------------------------
(* C11: every call of lift with a combining function whose declared
   parameter count is outside 1..3 fails fast: it throws, and gives the
   caller no value (such as undefined) to go on with. *)
C11_UnsupportedArityFailsFast ==
    \A i \in DOMAIN built :
        (/\ built[i].p \in DOMAIN LiftCalls
         /\ LiftCalls[built[i].p].f.length \notin 1..3)
            => built[i].m = TypeError

RECURSIVE SeqRun(_, _, _)
(* The computations ms run one after the other from the first to the last,
   each exactly once: their results rs in that order and the world after *)
SeqRun(ms, rs, W) ==
    IF ms = <<>> THEN [rs |-> rs, w |-> W]
    ELSE LET r == Run(Head(ms), W) IN SeqRun(Tail(ms), Append(rs, r.res), r.w)

(* C12: for every call lift(f, m1, ..., mn) with n = f.length in 1..3, in
   every reachable world, running what lift returns leaves the world that
   running m1, ..., mn once each from left to right leaves (the same
   effects in the same order) and returns f of their results in argument
   order; lift((n, m, p) => n + m + p, of(1), of(3), of(5)).run() is 9. *)
C12_LiftLeftToRight ==
    /\ \A c \in DOMAIN LiftCalls :
          LET f == LiftCalls[c].f
              ms == LiftCalls[c].ms
          IN  (f.length \in 1..3 /\ Len(ms) = f.length) =>
                 LET e == SeqRun(ms, <<>>, World)
                 IN  Run(lift(f, ms), World) = [res |-> Call(f.fn, e.rs), w |-> e.w]
    /\ Run(lift(Fn("sum", 3), << OfNow(IntV(1)), OfNow(IntV(3)), OfNow(IntV(5)) >>),
           World).res = IntV(9)
    /\ \A i \in DOMAIN built : \A j \in DOMAIN built[i].res :
          (built[i].p \in DOMAIN LiftCalls /\ LiftCalls[built[i].p].f = Fn("sum", 3))
             => built[i].res[j].v = IntV(9)

(* lift(f, async(a1), sample(b1), async(a2)) has been run in the initial
   world: a1 was started, then b1 read, then a2 started, and the result is
   f of the three results in that order *)
C12_Witness ==
    \E i \in DOMAIN built :
        /\ built[i].p \in DOMAIN LiftCalls
        /\ LiftCalls[built[i].p].f = Fn("tuple", 3)
        /\ built[i].res # <<>>
        /\ built[i].res[1].v = TupV(<< FutV(2), IntV(6), FutV(3) >>)
        /\ log = << [e |-> "start", io |-> "a1"], [e |-> "read", b |-> B1],
                    [e |-> "start", io |-> "a2"] >>

(* C18: a step that runs async(a1).chain(_ => async(a2).chain(_ => of(r)))
   starts a1 and then a2 and nothing else; when the run returns both
   actions are started and still pending (a2 did not wait for a1 to
   complete), and the result is r. *)
C18_ChainedAsyncs ==
    [][\A i \in DOMAIN built :
          (built[i].m = Chained /\ Len(built'[i].res) = Len(built[i].res) + 1) =>
             LET n == Len(promises)
             IN  /\ log' = log \o << [e |-> "start", io |-> "a1"],
                                     [e |-> "start", io |-> "a2"] >>
                 /\ Len(promises') = n + 2
                 /\ promises'[n + 1].io = "a1" /\ promises'[n + 1].st = "pending"
                 /\ promises'[n + 2].io = "a2" /\ promises'[n + 2].st = "pending"
                 /\ built'[i].res[Len(built'[i].res)].v = BoolV(TRUE)]_vars

(* The chain has been run once: a1 and a2 are started, in that order, and
   neither has completed *)
C18_Witness ==
    \E i \in DOMAIN built :
        /\ built[i].m = Chained
        /\ Len(built[i].res) = 1
        /\ built[i].res[1].v = BoolV(TRUE)
        /\ log = << [e |-> "start", io |-> "a1"], [e |-> "start", io |-> "a2"] >>
        /\ promises[1].st = "pending" /\ promises[2].st = "pending"

-----------------------------------------------------------------------------
(* The promises of the actions started for output stream o *)
OutPromises(o) ==
    {p \in DOMAIN promises : promises[p].to = [k |-> "out", id |-> o]}

(* The actions started for output stream o are the pushes made since it
   listens, once each and in push order; its occurrences are the results of
   those that have completed, one each *)
C13_OutputsMatch ==
    \A o \in DOMAIN outs :
        LET q == SelectSeq(promises, LAMBDA pr : pr.to = [k |-> "out", id |-> o])
            done == {p \in OutPromises(o) : promises[p].st = "resolved"}
        IN  /\ Len(q) <= Len(pushes)
            /\ \A k \in DOMAIN q : q[k].io = pushes[Len(pushes) - Len(q) + k]
            /\ Len(outs[o].got) = Cardinality(done)
            /\ {outs[o].got[k] : k \in DOMAIN outs[o].got}
                  = {promises[p].val : p \in done}
            /\ \A p \in done : promises[p].val = IntV(IOResult(promises[p].io))

(* C13: a push starts the pushed action within the push, once for each
   stream that performStream has created, and no other step starts one; in
   every state the actions started for an output stream are the pushes in
   push order, and its occurrences are exactly the results of the completed
   ones, one occurrence each: none for an action that is pending or failed. *)
C13_StartedOnceDeliveredOnce ==
    [][/\ pushes' # pushes =>
             LET io == pushes'[Len(pushes')]
                 n == Len(promises)
             IN  /\ Len(promises') = n + Len(outs)
                 /\ \A o \in DOMAIN outs :
                       promises'[n + o] = [io |-> io, st |-> "pending", val |-> NoneV,
                                           to |-> [k |-> "out", id |-> o]]
                 /\ log' = log \o [o \in DOMAIN outs |-> [e |-> "start", io |-> io]]
       /\ pushes' = pushes => Len(promises') = Len(promises)
       /\ C13_OutputsMatch']_vars

(* performStream(s) was run once, 1 and 2 were pushed, the first action
   completed and the second is pending: the output has the one occurrence 3 *)
C13_Witness ==
    /\ Len(outs) = 1
    /\ pushes = << "i1", "i2" >>
    /\ Len(promises) = 2
    /\ promises[1].st = "resolved"
    /\ promises[2].st = "pending"
    /\ outs[1].got = << IntV(3) >>

(* C14: the step that delivers the completion of an action started for an
   output stream appends that action's result (n + 2 for impure(n)) to the
   end of that stream's occurrences and changes no other occurrence: the
   outputs are in the order the completions arrive, whatever the order of
   the pushes. *)
C14_CompletionOrder ==
    [][\A p \in DOMAIN promises :
          (/\ promises[p].to.k = "out"
           /\ promises[p].st = "pending"
           /\ promises'[p].st = "resolved") =>
             /\ promises'[p].val = IntV(IOResult(promises[p].io))
             /\ outs' = [outs EXCEPT ![promises[p].to.id].got =
                                        Append(@, promises'[p].val)]]_vars

(* 1 and 2 were pushed and the second action completed before the first:
   the output has 4 before 3 *)
C14_Witness ==
    /\ Len(outs) = 1
    /\ Len(pushes) >= 2
    /\ pushes[1] = "i1" /\ pushes[2] = "i2"
    /\ Len(promises) >= 2
    /\ promises[1].io = "i1" /\ promises[2].io = "i2"
    /\ outs[1].got = << IntV(4), IntV(3) >>

(* After k runs there are k output streams, the j-th run returned the j-th;
   where every action of a push has completed, each stream that listened
   has exactly one occurrence for that push *)
C20_OneStreamPerRun ==
    /\ Len(outs) = SumRuns(built)
    /\ \A i \in DOMAIN built : \A j \in DOMAIN built[i].res :
          built[i].res[j].v = StreamV(j)
    /\ \A n \in DOMAIN pushes :
          LET ps == {p \in DOMAIN promises : promises[p].io = pushes[n]}
          IN  (\A p \in ps : promises[p].st = "resolved") =>
                 \A p \in ps :
                    Cardinality({k \in DOMAIN outs[promises[p].to.id].got :
                                    outs[promises[p].to.id].got[k] = IntV(n + 2)}) = 1

(* C20: every run of the one performStream(s) value adds a listener and
   returns a new output stream, leaving the earlier ones in place; no step
   removes one; a push made after k runs starts the pushed action k times,
   once for each output stream, and each of them gets one occurrence for
   the push once the completions have arrived. *)
C20_EveryRunListens ==
    [][/\ SumRuns(built') > SumRuns(built) =>
             /\ outs' = Append(outs, [src |-> "s1", got |-> <<>>])
             /\ log' = Append(log, [e |-> "addListener", s |-> "s1"])
       /\ Len(outs') >= Len(outs)
       /\ pushes' # pushes =>
             LET new == {p \in DOMAIN promises' : p > Len(promises)}
             IN  /\ Cardinality(new) = SumRuns(built)
                 /\ \A o \in 1..SumRuns(built) : \E p \in new :
                       /\ promises'[p].io = pushes'[Len(pushes')]
                       /\ promises'[p].to = [k |-> "out", id |-> o]
       /\ C20_OneStreamPerRun']_vars

(* performStream(s) was run twice, then 1 was pushed: the action was
   started twice, both completions arrived and each of the two output
   streams has the occurrence 3 *)
C20_Witness ==
    /\ Len(built) = 1 /\ Len(built[1].res) = 2
    /\ built[1].res[1].v # built[1].res[2].v
    /\ pushes = << "i1" >>
    /\ log = << [e |-> "addListener", s |-> "s1"], [e |-> "addListener", s |-> "s1"],
                [e |-> "start", io |-> "i1"], [e |-> "start", io |-> "i1"] >>
    /\ outs[1].got = << IntV(3) >> /\ outs[2].got = << IntV(3) >>

-----------------------------------------------------------------------------
RECURSIVE Rep(_, _)
(* n copies of the sequence q, one after the other *)
Rep(n, q) == IF n = 0 THEN <<>> ELSE q \o Rep(n - 1, q)

(* What evaluating a computation carried by the sink future does *)
EffectsOf(m) ==
    IF m.tag = "async" THEN << [e |-> "start", io |-> m.comp] >> ELSE <<>>

(* C17: the step in which a future occurs is the step in which the
   computations planned on it are evaluated: every future that plan
   returned for it has occurred when the step ends, and for the sink future
   F1, on which plan(F1) was run n times, the step does exactly the n
   evaluations of the carried computation, one after the other, and nothing
   else; no other event lies between the occurrence and an evaluation, so
   planned computations are evaluated in the order their futures occur. *)
C17_PlannedWithinOccurrence ==
    [][/\ \A f \in DOMAIN futures :
             (~futures[f].occurred /\ futures'[f].occurred) =>
                \A k \in DOMAIN futures[f].listeners :
                   LET l == futures[f].listeners[k]
                   IN  (l.k = "map" /\ l.fn = "run") => futures'[l.to].occurred
       /\ (~futures[1].occurred /\ futures'[1].occurred) =>
             LET n == SumRuns(SelectSeq(built, LAMBDA b : b.m = PlanNow(1)))
             IN  /\ log' = log \o Rep(n, << [e |-> "planRun"] >>
                                            \o EffectsOf(futures'[1].value.m))
                 /\ \A i \in DOMAIN built : \A j \in DOMAIN built[i].res :
                       built[i].m = PlanNow(1) =>
                          /\ futures'[built[i].res[j].v.f].occurred
                          /\ futures'[built[i].res[j].v.f].value.t # "now"]_vars

(* plan(F1) was run twice while F1 was pending, then F1 occurred carrying
   async(a2): a2 was started once for each plan, within the occurrence *)
C17_Witness ==
    /\ futures[1].occurred
    /\ futures[1].value = NowV(AsyncNow("a2"))
    /\ log = << [e |-> "listen", f |-> 1], [e |-> "listen", f |-> 1],
                [e |-> "planRun"], [e |-> "start", io |-> "a2"],
                [e |-> "planRun"], [e |-> "start", io |-> "a2"] >>

-----------------------------------------------------------------------------
RECURSIVE History(_)
(* The values the behavior switcher(of(n), e1) has had so far: n, then the
   values of the behavior e1 occurred with *)
History(b) ==
    << Val(World, b.init) >>
       \o (IF futures[b.fut].occurred /\ futures[b.fut].value.t = "beh"
           THEN History(futures[b.fut].value.b) ELSE <<>>)

RECURSIVE Levels(_)
(* The number of values the behaviors sampled with when have had so far,
   over the runs of main from the k-th on *)
Levels(k) ==
    IF k > Len(whens) THEN 0 ELSE Len(History(whens[k].b.of)) + Levels(k + 1)

(* C15: for every runNow(main()): the future sampled from when(b == 3) has
   occurred exactly when one of the numbers that arrived for this b was 3,
   and the promise of runNow is resolved, with true, exactly then; b has
   had one value for the start and one for each arrival; so after no
   arrival, after 1, and after 1, 2 the future has not occurred and the
   promise is pending, and after 1, 2, 3 it has occurred. *)
C15_OccursAtThirdArrival ==
    /\ Len(whens) = SumRuns(built)
    /\ Levels(1) = SumRuns(built) + Cardinality(Arrived)
    /\ \A i \in DOMAIN built : \A j \in DOMAIN built[i].res :
          LET w == built[i].res[j].v.f
              h == built[i].res[j].h
              H == History(whens[j].b.of)
          IN  /\ built[i].res[j].v.t = "fut"
              /\ whens[j].f = w
              /\ H[1] = IntV(0)
              /\ \A k \in DOMAIN H : k > 1 =>
                    \E p \in Arrived : promises[p].val = H[k]
              /\ futures[w].occurred <=> \E k \in DOMAIN H : H[k] = IntV(3)
              /\ handles[h].st = "resolved" <=> futures[w].occurred
              /\ handles[h].st = "resolved" => handles[h].val = BoolV(TRUE)
              /\ H \in { << IntV(0) >>, << IntV(0), IntV(1) >>,
                          << IntV(0), IntV(1), IntV(2) >> }
                    => ~futures[w].occurred /\ handles[h].st = "pending"
              /\ H = << IntV(0), IntV(1), IntV(2), IntV(3) >>
                    => futures[w].occurred /\ handles[h].st = "resolved"

(* runNow(main()) was called once and 1, 2, 3 arrived in this order: b has
   been 0, 1, 2, 3, and the promise is resolved with true *)
C15_Witness ==
    /\ Len(whens) = 1 /\ Len(handles) = 1
    /\ History(whens[1].b.of) = << IntV(0), IntV(1), IntV(2), IntV(3) >>
    /\ [n \in 1..3 |-> promises[n].val] = << IntV(1), IntV(2), IntV(3) >>
    /\ futures[whens[1].f].occurred
    /\ handles[1] = [st |-> "resolved", val |-> BoolV(TRUE), calls |-> 1]

(* The events e of the log *)
Count(e) == Cardinality({k \in DOMAIN log : log[k].e = e})

(* One level of loop has been evaluated for each run of main and one for
   each arrival; each level started one action, and each arrival ran one
   planned computation; every future of an action has the one continuation
   e.map(loop) *)
C19_Levels ==
    /\ Count("start") = SumRuns(built) + Cardinality(Arrived)
    /\ Len(promises) = Count("start")
    /\ Count("planRun") = Cardinality(Arrived)
    /\ \A p \in DOMAIN promises :
          /\ promises[p].to.k = "future"
          /\ Len(futures[promises[p].to.id].listeners) = 1
          /\ futures[promises[p].to.id].listeners[1].fn = "loop"
          /\ Len(futures[futures[promises[p].to.id].listeners[1].to].listeners) = 1
          /\ futures[futures[promises[p].to.id].listeners[1].to].listeners[1].fn = "run"

(* C19: the step that runs main and the step that delivers an arrival each
   evaluate exactly one level of loop: one action is started and one
   continuation registered, and the next level is not evaluated in the
   step; no other step evaluates a level; after k arrivals k + 1 levels
   have been evaluated for each run. *)
C19_OneLevelPerArrival ==
    [][/\ (SumRuns(built') > SumRuns(built) \/ Arrived' # Arrived) =>
             /\ Len(promises') = Len(promises) + 1
             /\ promises'[Len(promises')].st = "pending"
             /\ Count("start")' = Count("start") + 1
       /\ (SumRuns(built') = SumRuns(built) /\ Arrived' = Arrived) =>
             /\ Len(promises') = Len(promises)
             /\ Count("start")' = Count("start")
       /\ C19_Levels']_vars

(* main was run once and three numbers have arrived: four levels have been
   evaluated, three of them planned, and the action of the fourth is
   pending *)
C19_Witness ==
    /\ SumRuns(built) = 1
    /\ Cardinality(Arrived) = 3
    /\ Len(promises) = 4
    /\ promises[4].st = "pending"
    /\ Count("start") = 4
    /\ Count("planRun") = 3

=============================================================================
